---------------------------- MODULE Spec2Model ----------------------------
(***************************************************************************)
(* Model of circuit/breaker.py: the CircuitBreaker state machine           *)
(* (closed / open / half-open, sliding error window, exponential back-off  *)
(* with optional jitter), its context-manager protocol, and the            *)
(* CircuitBreakerSet registry that lazily creates one breaker per id.      *)
(*                                                                         *)
(* Objects live in heaps: breakers[i] is the i-th CircuitBreaker created,  *)
(* cbsets[s] the s-th CircuitBreakerSet, lists[l] the l-th Python list     *)
(* used as an error_types list (a breaker and its set hold the SAME list,  *)
(* so both store the list's index).  The injected clock is the variable    *)
(* now; one call reads one clock value.  The log collaborator has no       *)
(* effect on behaviour and is left out.                                    *)
(*                                                                         *)
(* The callers' side is kept in variables the code does not hold:          *)
(* blocks[i], the with-blocks on breakers[i] entered and not yet left;     *)
(* probes[i], the calls let through on breakers[i] while it was half-open  *)
(* (the one that made it half-open included) since an outcome was last     *)
(* reported to it, counted up to 2; hist, the clock values of the error()  *)
(* calls of a run of failures, kept by the specifications about such runs; *)
(* calls[t], how far thread t is in a call of context() that runs          *)
(* concurrently with other threads' calls, and the breaker it was returned;*)
(* and last, the last call made and what it returned or raised.            *)
(***************************************************************************)
EXTENDS Integers, Sequences, FiniteSets, TLC

VARIABLES now, breakers, cbsets, lists, blocks, probes, hist, calls, last

vars == <<now, breakers, cbsets, lists, blocks, probes, hist, calls, last>>

(***************************************************************************)
(* Bounds of the model and enumerated inputs.                              *)
(***************************************************************************)
MaxTime == 4
MaxTimeSet == 1
MaxBlocks == 1
JitterDen == 2
MaxListLen == 1
MaxRun == 4
MaxThreads == 2

\* Python's None, and a present value v, for the optional fields
\* (last_change, backoff_cap).
None == <<>>
Some(v) == <<v>>

\* The policies a directly constructed CircuitBreaker is given: every
\* combination without jitter and with a positive reset_timeout, two with
\* reset_timeout 0 and two with jitter.
Policies ==
    [ maxfail : {1, 2}, reset_timeout : {1, 2}, time_unit : {1, 3},
      backoff_cap : {None, Some(0), Some(1), Some(3)}, with_jitter : {FALSE} ]
    \cup
    [ maxfail : {1}, reset_timeout : {0}, time_unit : {1},
      backoff_cap : {None, Some(1)}, with_jitter : {FALSE} ]
    \cup
    [ maxfail : {1}, reset_timeout : {2}, time_unit : {3},
      backoff_cap : {None, Some(3)}, with_jitter : {TRUE} ]

\* The policies with jitter, with every kind of back-off cap.
JitterPolicies ==
    [ maxfail : {1}, reset_timeout : {1, 2}, time_unit : {3},
      backoff_cap : {None, Some(0), Some(1), Some(3)}, with_jitter : {TRUE} ]

\* The policies of the specification of a caller that keeps asking.
LivePolicies ==
    [ maxfail : {1}, reset_timeout : {1, 2}, time_unit : {3},
      backoff_cap : {None, Some(3)}, with_jitter : {FALSE, TRUE} ]

\* The policies of the specification of runs of failures that start in any
\* reachable state.
RunPolicies ==
    [ maxfail : {1, 2}, reset_timeout : {1}, time_unit : {1, 3},
      backoff_cap : {None}, with_jitter : {FALSE} ]

\* The policies a CircuitBreakerSet is constructed with.
SetPolicies ==
    [ maxfail : {1}, reset_timeout : {1}, time_unit : {2},
      backoff_cap : {None}, with_jitter : {FALSE} ]

\* Exception types a protected block may raise, and the ids callers use.
ExcTypes == {"IOError", "RuntimeError"}
Ids == {"x", "y"}

\* The lists a caller passes to handle_errors.
ErrTypeLists == {<<"IOError">>}

Min(a, b) == IF a < b THEN a ELSE b

RECURSIVE Pow2(_)
Pow2(n) == IF n = 0 THEN 1 ELSE 2 * Pow2(n - 1)

\* Python truthiness of an optional number: "if self.backoff_cap:".
Truthy(x) == x # None /\ x[1] # 0

\* "x in lst" on a Python list.
InList(x, lst) == \E k \in 1..Len(lst) : lst[k] = x

(***************************************************************************)
(* CircuitBreaker                                                          *)
(***************************************************************************)
MaxTestFailCount == 16

\* CircuitBreaker.__init__
CircuitBreaker(error_types, maxfail, reset_timeout, time_unit, backoff_cap, with_jitter) ==
    [ error_types     |-> error_types,
      maxfail         |-> maxfail,
      reset_timeout   |-> reset_timeout,
      time_unit       |-> time_unit,
      state           |-> "closed",
      last_change     |-> None,
      backoff_cap     |-> backoff_cap,
      test_fail_count |-> 0,
      with_jitter     |-> with_jitter,
      errors          |-> <<>> ]

\* reset that also empties the errors list.
resetClearsErrors(b) ==
    [b EXCEPT !.state = "closed", !.test_fail_count = 0, !.errors = <<>>]

\* reset with the failure count left as it is.
resetKeepsCount(b) == [b EXCEPT !.state = "closed"]

\* CircuitBreaker.reset
reset(b) == [b EXCEPT !.state = "closed", !.test_fail_count = 0]

\* open that leaves last_change as it is.
openNoStamp(b, clock) == [b EXCEPT !.state = "open"]

\* CircuitBreaker.open; clock is the value self.clock() returns.
open(b, clock) == [b EXCEPT !.state = "open", !.last_change = Some(clock)]

\* error with the window one entry too long before the rate is looked at.
errorOffByOne(b, clock) ==
    LET b1 == IF b.state = "half-open"
              THEN [b EXCEPT !.test_fail_count =
                                 Min(@ + 1, MaxTestFailCount)]
              ELSE b
        b2 == [b1 EXCEPT !.errors = Append(@, clock)]
    IN  IF Len(b2.errors) > b2.maxfail + 1
        THEN LET time == clock - Head(b2.errors)
                 b3   == [b2 EXCEPT !.errors = Tail(@)]
             IN  IF time < b3.time_unit THEN open(b3, clock) ELSE b3
        ELSE b2

\* error without the min(..., 16) on test_fail_count.
errorNoCap(b, clock) ==
    LET b1 == IF b.state = "half-open"
              THEN [b EXCEPT !.test_fail_count = @ + 1]
              ELSE b
        b2 == [b1 EXCEPT !.errors = Append(@, clock)]
    IN  IF Len(b2.errors) > b2.maxfail
        THEN LET time == clock - Head(b2.errors)
                 b3   == [b2 EXCEPT !.errors = Tail(@)]
             IN  IF time < b3.time_unit THEN open(b3, clock) ELSE b3
        ELSE b2

\* error without the pop(0).
errorKeepsAll(b, clock) ==
    LET b1 == IF b.state = "half-open"
              THEN [b EXCEPT !.test_fail_count =
                                 Min(@ + 1, MaxTestFailCount)]
              ELSE b
        b2 == [b1 EXCEPT !.errors = Append(@, clock)]
    IN  IF Len(b2.errors) > b2.maxfail
        THEN LET time == clock - Head(b2.errors)
             IN  IF time < b2.time_unit THEN open(b2, clock) ELSE b2
        ELSE b2

\* error that counts a failure in every state.
errorCountsAlways(b, clock) ==
    LET b1 == [b EXCEPT !.test_fail_count = Min(@ + 1, MaxTestFailCount)]
        b2 == [b1 EXCEPT !.errors = Append(@, clock)]
    IN  IF Len(b2.errors) > b2.maxfail
        THEN LET time == clock - Head(b2.errors)
                 b3   == [b2 EXCEPT !.errors = Tail(@)]
             IN  IF time < b3.time_unit THEN open(b3, clock) ELSE b3
        ELSE b2

\* error with "time <= self.time_unit".
errorInclusive(b, clock) ==
    LET b1 == IF b.state = "half-open"
              THEN [b EXCEPT !.test_fail_count =
                                 Min(@ + 1, MaxTestFailCount)]
              ELSE b
        b2 == [b1 EXCEPT !.errors = Append(@, clock)]
    IN  IF Len(b2.errors) > b2.maxfail
        THEN LET time == clock - Head(b2.errors)
                 b3   == [b2 EXCEPT !.errors = Tail(@)]
             IN  IF time <= b3.time_unit THEN open(b3, clock) ELSE b3
        ELSE b2

\* CircuitBreaker.error; clock is the value self.clock() returns.
error(b, clock) ==
    LET b1 == IF b.state = "half-open"
              THEN [b EXCEPT !.test_fail_count =
                                 Min(@ + 1, MaxTestFailCount)]
              ELSE b
        b2 == [b1 EXCEPT !.errors = Append(@, clock)]
    IN  IF Len(b2.errors) > b2.maxfail
        THEN LET time == clock - Head(b2.errors)
                 b3   == [b2 EXCEPT !.errors = Tail(@)]
             IN  IF time < b3.time_unit THEN open(b3, clock) ELSE b3
        ELSE b2

\* The delay CircuitBreaker.test computes before the jitter is applied.
delay_time(b) ==
    IF Truthy(b.backoff_cap)
    THEN Min(b.reset_timeout * Pow2(b.test_fail_count), b.backoff_cap[1])
    ELSE b.reset_timeout

\* The comparison of test always true: an open breaker lets nothing through.
StillOpenAlways(b, delta, rnd) == TRUE

\* The comparison of test with "delta <= delay_time".
StillOpenInclusive(b, delta, rnd) ==
    IF b.with_jitter
    THEN delta * JitterDen <= rnd * delay_time(b)
    ELSE delta <= delay_time(b)

\* "delta < delay_time" in CircuitBreaker.test, where with jitter
\* delay_time = random.random() * delay_time and random.random() = rnd/JitterDen.
StillOpen(b, delta, rnd) ==
    IF b.with_jitter
    THEN delta * JitterDen < rnd * delay_time(b)
    ELSE delta < delay_time(b)

\* test that restarts the wait when it raises CircuitOpenError.
testRestartsWait(b, clock, rnd) ==
    IF b.state = "open"
    THEN IF b.last_change = None
         THEN [b |-> b, ret |-> "None", exc |-> "TypeError"]
         ELSE IF StillOpen(b, clock - b.last_change[1], rnd)
              THEN [b   |-> [b EXCEPT !.last_change = Some(clock)],
                    ret |-> "None", exc |-> "CircuitOpenError"]
              ELSE [b   |-> [b EXCEPT !.state = "half-open"],
                    ret |-> "half-open", exc |-> "None"]
    ELSE [b |-> b, ret |-> b.state, exc |-> "None"]

\* CircuitBreaker.test: the breaker after the call, the value returned and
\* the exception raised ("None" when the call returns).
test(b, clock, rnd) ==
    IF b.state = "open"
    THEN IF b.last_change = None
         THEN [b |-> b, ret |-> "None", exc |-> "TypeError"]
         ELSE IF StillOpen(b, clock - b.last_change[1], rnd)
              THEN [b |-> b, ret |-> "None", exc |-> "CircuitOpenError"]
              ELSE [b   |-> [b EXCEPT !.state = "half-open"],
                    ret |-> "half-open", exc |-> "None"]
    ELSE [b |-> b, ret |-> b.state, exc |-> "None"]

\* CircuitBreaker.success
success(b) == IF b.state = "half-open" THEN reset(b) ELSE b

\* __exit__ that records every exception as a failure.
exitRecordsAny(b, error_types, exc_type, clock) ==
    [ b   |-> IF exc_type = "None" THEN success(b) ELSE error(b, clock),
      ret |-> FALSE ]

\* __exit__ that returns True once it has recorded a failure.
exitSwallows(b, error_types, exc_type, clock) ==
    [ b   |-> IF exc_type = "None" THEN success(b)
              ELSE IF InList(exc_type, error_types) THEN error(b, clock)
              ELSE b,
      ret |-> exc_type # "None" /\ InList(exc_type, error_types) ]

\* CircuitBreaker.__exit__: the breaker after the call and the value
\* returned (FALSE: the exception of the block, if any, propagates).
exit(b, error_types, exc_type, clock) ==
    [ b   |-> IF exc_type = "None" THEN success(b)
              ELSE IF InList(exc_type, error_types) THEN error(b, clock)
              ELSE b,
      ret |-> FALSE ]

(***************************************************************************)
(* CircuitBreakerSet                                                       *)
(***************************************************************************)
\* CircuitBreakerSet.__init__; error_types is the index of the fresh list
\* the constructor creates, circuits the empty dict.
CircuitBreakerSet(error_types, maxfail, reset_timeout, time_unit, backoff_cap, with_jitter) ==
    [ maxfail       |-> maxfail,
      reset_timeout |-> reset_timeout,
      time_unit     |-> time_unit,
      backoff_cap   |-> backoff_cap,
      with_jitter   |-> with_jitter,
      circuits      |-> << >>,
      error_types   |-> error_types ]

\* handle_error that leaves the list as it was.
handle_errorDrops(lst, err_type) == lst

\* CircuitBreakerSet.handle_error: list.append on the set's error_types.
handle_error(lst, err_type) == Append(lst, err_type)

\* CircuitBreakerSet.handle_errors: list.extend on the set's error_types.
handle_errors(lst, err_types) == lst \o err_types

\* context without the "id not in self.circuits" test.
contextAlwaysNew(s, id, heap) ==
    LET new == Len(heap) + 1
    IN  [ set  |-> [s EXCEPT !.circuits = (id :> new) @@ @],
          heap |-> Append(heap,
                          CircuitBreaker(s.error_types, s.maxfail,
                                         s.reset_timeout, s.time_unit,
                                         s.backoff_cap, s.with_jitter)),
          ret  |-> new ]

\* CircuitBreakerSet.context: the set and the breaker heap after the call,
\* and the index of the breaker returned.
context(s, id, heap) ==
    IF id \in DOMAIN s.circuits
    THEN [set |-> s, heap |-> heap, ret |-> s.circuits[id]]
    ELSE LET new == Len(heap) + 1
         IN  [ set  |-> [s EXCEPT !.circuits = @ @@ (id :> new)],
               heap |-> Append(heap,
                               CircuitBreaker(s.error_types, s.maxfail,
                                              s.reset_timeout, s.time_unit,
                                              s.backoff_cap, s.with_jitter)),
               ret  |-> new ]

(***************************************************************************)
(* State                                                                   *)
(***************************************************************************)
\* The last call made: the operation, the breaker it was made on (or, for
\* context, the breaker returned), its argument, the value returned and the
\* exception that reached the caller ("None": the call returned).
Call(op, inst, arg, ret, exc) ==
    [op |-> op, inst |-> inst, arg |-> arg, ret |-> ret, exc |-> exc]

NoCall == Call("init", 0, "None", "None", "None")

\* One CircuitBreaker constructed directly, as the test cases' setUp does,
\* with policy p and the error_types list [IOError].
InitBreaker(p) ==
    /\ now = 0
    /\ breakers = << CircuitBreaker(1, p.maxfail, p.reset_timeout,
                                    p.time_unit, p.backoff_cap,
                                    p.with_jitter) >>
    /\ lists = << <<"IOError">> >>
    /\ cbsets = << >>
    /\ blocks = << 0 >>
    /\ probes = << 0 >>
    /\ hist = << >>
    /\ calls = << >>
    /\ last = NoCall

Init == \E p \in Policies : InitBreaker(p)

InitRun == \E p \in RunPolicies : InitBreaker(p)

InitJitter == \E p \in JitterPolicies : InitBreaker(p)

InitLive == \E p \in LivePolicies : InitBreaker(p)

\* The longest delay test() computes under the policies of LivePolicies,
\* and the clock value up to which a breaker opened by MaxTime is waited
\* for.
MaxDelay(p) == IF Truthy(p.backoff_cap) THEN p.backoff_cap[1]
               ELSE p.reset_timeout

LiveHorizon ==
    MaxTime + (CHOOSE d \in {MaxDelay(p) : p \in LivePolicies} :
                  \A p \in LivePolicies : MaxDelay(p) <= d)

\* A CircuitBreakerSet constructed with no breaker yet and an empty
\* error_types list.
InitSet ==
    /\ now = 0
    /\ \E p \in SetPolicies :
          cbsets = << CircuitBreakerSet(1, p.maxfail, p.reset_timeout,
                                          p.time_unit, p.backoff_cap,
                                          p.with_jitter) >>
    /\ lists = << << >> >>
    /\ breakers = << >>
    /\ blocks = << >>
    /\ probes = << >>
    /\ hist = << >>
    /\ calls = << >>
    /\ last = NoCall

\* A thread that is in no call of context() and was returned breaker ret
\* (0: none yet) by its last call, made for id, in which it created breaker
\* new (0: none).
Idle(id, new, ret) ==
    [pc |-> "idle", set |-> 0, id |-> id, new |-> new, ret |-> ret]

\* The CircuitBreakerSet of InitSet, used by MaxThreads threads at once.
InitConc ==
    /\ now = 0
    /\ \E p \in SetPolicies :
          cbsets = << CircuitBreakerSet(1, p.maxfail, p.reset_timeout,
                                          p.time_unit, p.backoff_cap,
                                          p.with_jitter) >>
    /\ lists = << << >> >>
    /\ breakers = << >>
    /\ blocks = << >>
    /\ probes = << >>
    /\ hist = << >>
    /\ calls = [t \in 1..MaxThreads |-> Idle("None", 0, 0)]
    /\ last = NoCall

\* probes[i] after a call of test() with result r: a call let through that
\* leaves the breaker half-open is one more probe.
Permitted(n, r) ==
    IF r.exc = "None" /\ r.b.state = "half-open" THEN Min(n + 1, 2) ELSE n

\* The clock collaborator advances (Clock.advance in the tests), up to the
\* horizon of the specification.
Advance(horizon) ==
    /\ now < horizon
    /\ now' = now + 1
    /\ last' = Call("advance", 0, "None", "None", "None")
    /\ UNCHANGED <<calls, breakers, cbsets, lists, blocks, probes, hist>>

\* The values random.random() may return, as numerators over JitterDen, in
\* a call of b.test(): it is called only with jitter.
Draws(b) == IF b.with_jitter THEN 0..(JitterDen - 1) ELSE {0}

\* A caller calls breakers[i].test().
Test(i) ==
    \E rnd \in Draws(breakers[i]) :
        LET r == test(breakers[i], now, rnd)
        IN  /\ breakers' = [breakers EXCEPT ![i] = r.b]
            /\ probes' = [probes EXCEPT ![i] = Permitted(@, r)]
            /\ last' = Call("test", i, "None", r.ret, r.exc)
            /\ UNCHANGED <<now, calls, cbsets, lists, blocks, hist>>

\* A caller calls breakers[i].success().
Success(i) ==
    /\ breakers' = [breakers EXCEPT ![i] = success(@)]
    /\ probes' = [probes EXCEPT ![i] = 0]
    /\ last' = Call("success", i, "None", "None", "None")
    /\ UNCHANGED <<now, calls, cbsets, lists, blocks, hist>>

\* breakers[i].error() is called.
ErrorCall(i) ==
    /\ breakers' = [breakers EXCEPT ![i] = error(@, now)]
    /\ probes' = [probes EXCEPT ![i] = 0]
    /\ last' = Call("error", i, "None", "None", "None")
    /\ UNCHANGED <<now, calls, cbsets, lists, blocks>>

\* A caller calls breakers[i].error().
Error(i) == ErrorCall(i) /\ UNCHANGED hist

\* A caller calls breakers[i].error() as one more failure of a run of
\* failures.
RunError(i) ==
    /\ Len(hist) < MaxRun
    /\ ErrorCall(i)
    /\ hist' = Append(hist, now)

\* "with breakers[i]:" is entered: CircuitBreaker.__enter__ calls test();
\* when test() raises, the block is not entered and the exception reaches
\* the caller.
Enter(i) ==
    /\ blocks[i] < MaxBlocks
    /\ \E rnd \in Draws(breakers[i]) :
        LET r == test(breakers[i], now, rnd)
        IN  /\ breakers' = [breakers EXCEPT ![i] = r.b]
            /\ blocks' = [blocks EXCEPT ![i] = IF r.exc = "None"
                                               THEN @ + 1 ELSE @]
            /\ probes' = [probes EXCEPT ![i] = Permitted(@, r)]
            /\ last' = Call("enter", i, "None",
                            IF r.exc = "None" THEN "self" ELSE "None", r.exc)
            /\ UNCHANGED <<now, calls, cbsets, lists, hist>>

\* The block of "with breakers[i]:" ends, normally (exc_type "None") or by
\* raising exc_type: CircuitBreaker.__exit__ runs, and the exception reaches
\* the caller unless __exit__ returns true.
Exit(i, exc_type) ==
    /\ blocks[i] > 0
    /\ LET error_types == lists[breakers[i].error_types]
           r == exit(breakers[i], error_types, exc_type, now)
       IN  /\ breakers' = [breakers EXCEPT ![i] = r.b]
           /\ blocks' = [blocks EXCEPT ![i] = @ - 1]
           /\ probes' = [probes EXCEPT ![i] =
                            IF exc_type = "None"
                               \/ InList(exc_type, error_types)
                            THEN 0 ELSE @]
           /\ last' = Call("exit", i, exc_type,
                           IF r.ret THEN "True" ELSE "False",
                           IF r.ret THEN "None" ELSE exc_type)
           /\ UNCHANGED <<now, calls, cbsets, lists, hist>>

\* A caller calls cbsets[s].context(id).
Context(s, id) ==
    LET r == context(cbsets[s], id, breakers)
        created == Len(r.heap) > Len(breakers)
    IN  /\ cbsets' = [cbsets EXCEPT ![s] = r.set]
        /\ breakers' = r.heap
        /\ blocks' = IF created THEN Append(blocks, 0) ELSE blocks
        /\ probes' = IF created THEN Append(probes, 0) ELSE probes
        /\ last' = Call("context", r.ret, id, "None", "None")
        /\ UNCHANGED <<now, calls, lists, hist>>

\* A caller calls cbsets[s].handle_error(err_type).
HandleError(s, err_type) ==
    /\ Len(lists[cbsets[s].error_types]) < MaxListLen
    /\ lists' = [lists EXCEPT ![cbsets[s].error_types] =
                                  handle_error(@, err_type)]
    /\ last' = Call("handle_error", 0, err_type, "None", "None")
    /\ UNCHANGED <<now, calls, breakers, cbsets, blocks, probes, hist>>

\* A caller calls cbsets[s].handle_errors(err_types).
HandleErrors(s, err_types) ==
    /\ Len(lists[cbsets[s].error_types]) + Len(err_types) <= MaxListLen
    /\ lists' = [lists EXCEPT ![cbsets[s].error_types] =
                                  handle_errors(@, err_types)]
    /\ last' = Call("handle_errors", 0, "None", "None", "None")
    /\ UNCHANGED <<now, calls, breakers, cbsets, blocks, probes, hist>>

\* Thread t calls cbsets[s].context(id) and evaluates
\* "id not in self.circuits"; nothing keeps other threads out of the
\* method until it returns.
ContextTest(t, s, id) ==
    /\ calls[t].pc = "idle"
    /\ calls' = [calls EXCEPT ![t] =
                    [pc |-> IF id \in DOMAIN cbsets[s].circuits
                            THEN "return" ELSE "factory",
                     set |-> s, id |-> id, new |-> 0, ret |-> 0]]
    /\ last' = Call("context.test", 0, id, "None", "None")
    /\ UNCHANGED <<now, breakers, cbsets, lists, blocks, probes, hist>>

\* Thread t, having found the id absent, calls self.factory(...).
ContextFactory(t) ==
    /\ calls[t].pc = "factory"
    /\ LET s == cbsets[calls[t].set]
       IN  breakers' = Append(breakers,
                              CircuitBreaker(s.error_types, s.maxfail,
                                             s.reset_timeout, s.time_unit,
                                             s.backoff_cap, s.with_jitter))
    /\ blocks' = Append(blocks, 0)
    /\ probes' = Append(probes, 0)
    /\ calls' = [calls EXCEPT ![t].pc = "store",
                              ![t].new = Len(breakers) + 1]
    /\ last' = Call("context.factory", Len(breakers) + 1, calls[t].id,
                    "None", "None")
    /\ UNCHANGED <<now, cbsets, lists, hist>>

\* Thread t stores the breaker it created: self.circuits[id] = ...
ContextStore(t) ==
    /\ calls[t].pc = "store"
    /\ cbsets' = [cbsets EXCEPT ![calls[t].set].circuits =
                                    (calls[t].id :> calls[t].new) @@ @]
    /\ calls' = [calls EXCEPT ![t].pc = "return"]
    /\ last' = Call("context.store", calls[t].new, calls[t].id,
                    "None", "None")
    /\ UNCHANGED <<now, breakers, lists, blocks, probes, hist>>

\* Thread t returns self.circuits[id].
ContextReturn(t) ==
    /\ calls[t].pc = "return"
    /\ LET ret == cbsets[calls[t].set].circuits[calls[t].id]
       IN  /\ calls' = [calls EXCEPT ![t] = Idle(calls[t].id, calls[t].new,
                                                 ret)]
           /\ last' = Call("context", ret, calls[t].id, "None", "None")
    /\ UNCHANGED <<now, breakers, cbsets, lists, blocks, probes, hist>>

(***************************************************************************)
(* Specifications                                                          *)
(***************************************************************************)
\* The calls on the breakers.
BreakerNext ==
    \/ \E i \in DOMAIN breakers : Test(i)
    \/ \E i \in DOMAIN breakers : Success(i)
    \/ \E i \in DOMAIN breakers : Error(i)
    \/ \E i \in DOMAIN breakers : Enter(i)
    \/ \E i \in DOMAIN breakers, exc_type \in ExcTypes \cup {"None"} :
          Exit(i, exc_type)

\* One directly constructed breaker, any calls.
Next ==
    \/ Advance(MaxTime)
    \/ BreakerNext

Spec == Init /\ [][Next]_vars

\* One directly constructed breaker, only failures reported, all recorded
\* in hist.
NextFresh ==
    \/ Advance(MaxTime)
    \/ \E i \in DOMAIN breakers : RunError(i)

SpecFresh == Init /\ [][NextFresh]_vars

\* One directly constructed breaker: any calls, and then a run of failures
\* recorded in hist.
NextRun ==
    \/ Advance(MaxTime)
    \/ hist = << >> /\ BreakerNext
    \/ \E i \in DOMAIN breakers : RunError(i)

SpecRun == InitRun /\ [][NextRun]_vars

\* One directly constructed breaker with jitter, any calls.
SpecJitter == InitJitter /\ [][Next]_vars

\* One directly constructed breaker used only through with-blocks, by
\* callers that enter the block only when test() lets them and report its
\* outcome when it ends; blocks fail up to clock value MaxTime, the clock
\* keeps advancing and the callers keep asking.
NextLive ==
    \/ Advance(LiveHorizon)
    \/ \E i \in DOMAIN breakers : Enter(i)
    \/ \E i \in DOMAIN breakers : Exit(i, "None")
    \/ \E i \in DOMAIN breakers, exc_type \in ExcTypes :
          now <= MaxTime /\ Exit(i, exc_type)

SpecLive ==
    /\ InitLive
    /\ [][NextLive]_vars
    /\ WF_vars(Advance(LiveHorizon))
    /\ WF_vars(\E i \in DOMAIN breakers : Enter(i))

\* One directly constructed breaker: test(), success() and error() in any
\* order, every failure recorded in hist.
NextHist ==
    \/ Advance(MaxTime)
    \/ \E i \in DOMAIN breakers : Test(i)
    \/ \E i \in DOMAIN breakers : Success(i)
    \/ \E i \in DOMAIN breakers : RunError(i)

SpecHist == InitRun /\ [][NextHist]_vars

\* One CircuitBreakerSet and the breakers it creates.
NextSet ==
    \/ Advance(MaxTimeSet)
    \/ BreakerNext
    \/ \E s \in DOMAIN cbsets, id \in Ids : Context(s, id)
    \/ \E s \in DOMAIN cbsets, err_type \in {"IOError"} :
          HandleError(s, err_type)
    \/ \E s \in DOMAIN cbsets, err_types \in ErrTypeLists :
          HandleErrors(s, err_types)

SpecSet == InitSet /\ [][NextSet]_vars

\* One CircuitBreakerSet whose context() is called by MaxThreads threads,
\* each statement of the method being one step.
NextConc ==
    \/ \E t \in DOMAIN calls, s \in DOMAIN cbsets, id \in Ids :
          ContextTest(t, s, id)
    \/ \E t \in DOMAIN calls : ContextFactory(t)
    \/ \E t \in DOMAIN calls : ContextStore(t)
    \/ \E t \in DOMAIN calls : ContextReturn(t)

SpecConc == InitConc /\ [][NextConc]_vars

(***************************************************************************)
(* Properties                                                              *)
(***************************************************************************)
\* The step is a call of one of ops on breakers[i].
CallOn(i, ops) == last'.op \in ops /\ last'.inst = i

\* The step is a permit check on breakers[i]: test(), or the entry of a
\* with-block.
PermitOn(i) == CallOn(i, {"test", "enter"})

\* The step reports a success to breakers[i]: success(), or a with-block
\* left without an exception.
SuccessOn(i) ==
    CallOn(i, {"success"}) \/ (CallOn(i, {"exit"}) /\ last'.arg = "None")

\* The step leaves a with-block on breakers[i] by an exception of a type in
\* (classified) or not in (~classified) the breaker's error_types.
RaisingExitOn(i, classified) ==
    /\ CallOn(i, {"exit"})
    /\ last'.arg # "None"
    /\ InList(last'.arg, lists[breakers[i].error_types]) = classified

\* b after n calls of error() at clock value clock.
RECURSIVE ErrorTimes(_, _, _)
ErrorTimes(b, n, clock) ==
    IF n = 0 THEN b ELSE ErrorTimes(error(b, clock), n - 1, clock)

\* From b at clock value clock, maxfail+1 calls of error() lead to an open
\* breaker, test() once its delay has passed to a half-open one, and
\* success() then to a closed one.
Revivable(b, clock) ==
    LET opened == ErrorTimes(b, b.maxfail + 1, clock)
    IN  /\ opened.state = "open"
        /\ \A rnd \in Draws(b) :
              LET probed == test(opened, clock + delay_time(opened), rnd)
              IN  /\ probed.exc = "None"
                  /\ probed.b.state = "half-open"
                  /\ success(probed.b).state = "closed"

\* The step reports a failure to breakers[i].
FailureOn(i) == CallOn(i, {"error"}) \/ RaisingExitOn(i, TRUE)

\* C1: after maxfail+1 error() calls in a row, started in any reachable
\* state, with less than time_unit between the first and the last of them,
\* the breaker is open.
C1_BurstOpens ==
    \A i \in DOMAIN breakers :
        LET b == breakers[i]
            n == Len(hist)
        IN  (n >= b.maxfail + 1 /\ hist[n] - hist[n - b.maxfail] < b.time_unit)
                => b.state = "open"

C1_Witness ==
    \E i \in DOMAIN breakers :
        LET b == breakers[i]
            n == Len(hist)
        IN  /\ n = b.maxfail + 1
            /\ hist[1] < hist[n]
            /\ hist[n] - hist[1] < b.time_unit
            /\ b.test_fail_count > 0
            /\ b.state = "open"
            /\ last.op = "error"

\* C2: on a fresh breaker that is only reported failures, as long as every
\* maxfail+1 consecutive failures span at least time_unit, the breaker is
\* closed after every call.
C2_SparseStaysClosed ==
    \A i \in DOMAIN breakers :
        LET b == breakers[i]
            n == Len(hist)
        IN  (\A k \in 1..(n - b.maxfail) :
                 hist[k + b.maxfail] - hist[k] >= b.time_unit)
                => b.state = "closed"

C2_Witness ==
    \E i \in DOMAIN breakers :
        LET b == breakers[i]
            n == Len(hist)
        IN  /\ n >= b.maxfail + 2
            /\ \A k \in 1..(n - b.maxfail) :
                   hist[k + b.maxfail] - hist[k] >= b.time_unit
            /\ b.state = "closed"
            /\ last.op = "error"

\* C3: without a back-off cap and without jitter, a permit check on an open
\* breaker raises CircuitOpenError (and leaves it open) exactly when
\* now - last_change < reset_timeout; otherwise it is let through and the
\* breaker becomes half-open.
C3_OpenNoBackoff ==
    [][\A i \in DOMAIN breakers :
          LET b == breakers[i]
          IN  (/\ PermitOn(i)
               /\ b.state = "open"
               /\ b.backoff_cap = None
               /\ ~b.with_jitter)
              => IF now - b.last_change[1] < b.reset_timeout
                 THEN /\ last'.exc = "CircuitOpenError"
                      /\ breakers'[i].state = "open"
                 ELSE /\ last'.exc = "None"
                      /\ breakers'[i].state = "half-open"]_vars

C3_Witness ==
    \E i \in DOMAIN breakers :
        LET b == breakers[i]
        IN  /\ last = Call("test", i, "None", "half-open", "None")
            /\ probes[i] = 1
            /\ b.backoff_cap = None
            /\ ~b.with_jitter
            /\ b.reset_timeout > 0
            /\ now - b.last_change[1] = b.reset_timeout

\* C4: with a back-off cap configured (whatever its value) and without
\* jitter, a permit check on an open breaker is rejected exactly when
\* now - last_change < min(backoff_cap, reset_timeout * 2^test_fail_count).
C4_BackoffFormula ==
    [][\A i \in DOMAIN breakers :
          LET b == breakers[i]
          IN  (/\ PermitOn(i)
               /\ b.state = "open"
               /\ b.backoff_cap # None
               /\ ~b.with_jitter)
              => (last'.exc = "CircuitOpenError"
                  <=> now - b.last_change[1]
                        < Min(b.backoff_cap[1],
                              b.reset_timeout * Pow2(b.test_fail_count)))]_vars

\* C5: a success reported to a half-open breaker closes it and sets
\* test_fail_count to 0, so that the next permit check is let through.
C5_SuccessCloses ==
    [][\A i \in DOMAIN breakers :
          (SuccessOn(i) /\ breakers[i].state = "half-open")
          => /\ breakers'[i].state = "closed"
             /\ breakers'[i].test_fail_count = 0
             /\ \A rnd \in Draws(breakers'[i]) :
                    test(breakers'[i], now', rnd).exc = "None"]_vars

C5_Witness ==
    \E i \in DOMAIN breakers :
        LET b == breakers[i]
        IN  /\ last.op = "success"
            /\ last.inst = i
            /\ b.state = "closed"
            /\ b.last_change # None
            /\ b.test_fail_count = 0

\* C6: whenever a failure is reported to a half-open breaker, the breaker
\* is open right after.
C6_ProbeFailureReopens ==
    [][\A i \in DOMAIN breakers :
          (FailureOn(i) /\ breakers[i].state = "half-open")
          => breakers'[i].state = "open"]_vars

\* C7: once a call has been let through as the probe of a half-open
\* breaker, no second call is let through on that breaker before an
\* outcome is reported to it.
C7_SingleProbe == \A i \in DOMAIN breakers : probes[i] <= 1

\* C8: a with-block left by an exception whose type is not in error_types
\* leaves the breaker as it was (window, state, test_fail_count,
\* last_change), and the exception reaches the caller.
C8_UnclassifiedExit ==
    [][\A i \in DOMAIN breakers :
          RaisingExitOn(i, FALSE)
          => /\ breakers'[i] = breakers[i]
             /\ last'.exc = last'.arg]_vars

C8_Witness ==
    \E i \in DOMAIN breakers :
        /\ last = Call("exit", i, "RuntimeError", "False", "RuntimeError")
        /\ breakers[i].state = "half-open"
        /\ breakers[i].test_fail_count > 0

\* C9: a with-block left by an exception reaches the caller with that
\* exception in every breaker state; when its type is in error_types, the
\* failure is recorded once, at the current clock value, as error() does.
C9_ClassifiedExit ==
    [][\A i \in DOMAIN breakers :
          LET b  == breakers[i]
              b2 == breakers'[i]
          IN  /\ (CallOn(i, {"exit"}) /\ last'.arg # "None")
                 => last'.exc = last'.arg
              /\ RaisingExitOn(i, TRUE)
                 => /\ b2 = error(b, now)
                    /\ Len(b2.errors) = Min(Len(b.errors) + 1, b.maxfail)
                    /\ b2.errors[Len(b2.errors)] = now]_vars

C9_Witness ==
    \E i \in DOMAIN breakers :
        /\ last = Call("exit", i, "IOError", "False", "IOError")
        /\ breakers[i].state = "open"
        /\ breakers[i].last_change = Some(now)
        /\ now > 0

\* C10: context(id) returns the breaker already stored for id when there is
\* one and a new breaker otherwise, stores what it returns, never removes
\* or replaces an entry, keeps different ids on different breakers, and no
\* call changes a breaker other than the one it is made on.
C10_Registry ==
    [][\A s \in DOMAIN cbsets :
          LET c  == cbsets[s].circuits
              c2 == cbsets'[s].circuits
          IN  /\ \A id \in DOMAIN c : id \in DOMAIN c2 /\ c2[id] = c[id]
              /\ \A id1, id2 \in DOMAIN c2 :
                     id1 # id2 => c2[id1] # c2[id2]
              /\ last'.op = "context"
                 => /\ last'.arg \in DOMAIN c2
                    /\ c2[last'.arg] = last'.inst
                    /\ IF last'.arg \in DOMAIN c
                       THEN last'.inst = c[last'.arg]
                       ELSE last'.inst \notin DOMAIN breakers
              /\ \A j \in DOMAIN breakers :
                     (last'.op = "context" \/ last'.inst # j)
                     => breakers'[j] = breakers[j]]_vars

C10_Witness ==
    \E s \in DOMAIN cbsets :
        LET c == cbsets[s].circuits
        IN  /\ DOMAIN c = Ids
            /\ last.op = "context"
            /\ last.inst = c[last.arg]
            /\ breakers[last.inst].state = "open"
            /\ \E id \in Ids \ {last.arg} :
                   /\ breakers[c[id]].state = "closed"
                   /\ breakers[c[id]].errors = << >>


\* C12: registering an error type with handle_error or handle_errors puts
\* it in the list every breaker of the set classifies with, those created
\* before the call included: right after the call, the exit of a with-block
\* of any existing breaker with that type is what error() does, and a
\* with-block that does exit with a registered type is recorded as a
\* failure.
C12_RegistrationReachesAll ==
    [][\A s \in DOMAIN cbsets :
          LET l == cbsets[s].error_types
              registered(k) == InList(k, lists'[l])
          IN  /\ last'.op = "handle_error" => registered(last'.arg)
              /\ last'.op = "handle_errors"
                 => \E ets \in ErrTypeLists :
                        \A n \in DOMAIN ets : registered(ets[n])
              /\ last'.op \in {"handle_error", "handle_errors"}
                 => \A k \in ExcTypes, i \in DOMAIN breakers :
                        registered(k)
                        => exit(breakers'[i], lists'[breakers'[i].error_types],
                                k, now').b = error(breakers[i], now')
              /\ \A i \in DOMAIN breakers :
                    (CallOn(i, {"exit"}) /\ InList(last'.arg, lists[l]))
                    => breakers'[i] = error(breakers[i], now)]_vars

C12_Witness ==
    /\ last = Call("handle_error", 0, "IOError", "None", "None")
    /\ \E i \in DOMAIN breakers :
           /\ blocks[i] > 0
           /\ breakers[i].error_types = cbsets[1].error_types
           /\ exit(breakers[i], lists[breakers[i].error_types],
                   "IOError", now).b.errors # breakers[i].errors

\* C13: test_fail_count stays within 0..MaxTestFailCount; a call raises it
\* only if it records a failure on a half-open breaker, and then by exactly
\* one, or not at all once it is MaxTestFailCount; a failure recorded on a
\* closed or open breaker leaves it as it was.
C13_CounterBounds ==
    [][\A i \in DOMAIN breakers :
          LET b  == breakers[i]
              b2 == breakers'[i]
          IN  /\ b2.test_fail_count \in 0..MaxTestFailCount
              /\ b2.test_fail_count > b.test_fail_count
                 => FailureOn(i) /\ b.state = "half-open"
              /\ FailureOn(i)
                 => b2.test_fail_count =
                        IF b.state = "half-open"
                        THEN Min(b.test_fail_count + 1, MaxTestFailCount)
                        ELSE b.test_fail_count]_vars

C13_Witness ==
    \E i \in DOMAIN breakers :
        /\ last.op = "error"
        /\ last.inst = i
        /\ breakers[i].test_fail_count = MaxTestFailCount

\* C14: the errors list never holds more than maxfail+1 clock values, not
\* even inside error() right after the append; a recorded failure appends
\* the clock value, and whenever that makes the list longer than maxfail
\* the oldest entry is removed.
C14_WindowBounded ==
    [][\A i \in DOMAIN breakers :
          LET b        == breakers[i]
              b2       == breakers'[i]
              appended == Append(b.errors, now)
          IN  /\ Len(b2.errors) <= b2.maxfail + 1
              /\ FailureOn(i)
                 => /\ Len(appended) <= b.maxfail + 1
                    /\ b2.errors = IF Len(appended) > b.maxfail
                                   THEN Tail(appended) ELSE appended]_vars

C14_Witness ==
    \E i \in DOMAIN breakers :
        /\ last.op = "error"
        /\ last.inst = i
        /\ breakers[i].maxfail = 2
        /\ breakers[i].errors = <<now - 1, now>>
        /\ breakers[i].state = "open"
        /\ breakers[i].last_change = Some(now)

\* C15: what error() decides from its list of at most maxfail clock values
\* is what the whole history of failures decides: a call of error() at
\* clock value now leaves the breaker open with last_change = now if and
\* only if more than maxfail of all the failures ever reported, this one
\* included and whatever calls of test(), success() and open() came in
\* between, are less than time_unit before now.
C15_SlidingWindow ==
    [][\A i \in DOMAIN breakers :
          LET b2     == breakers'[i]
              recent == {k \in DOMAIN hist' : now - hist'[k] < b2.time_unit}
          IN  (CallOn(i, {"error"}) /\ hist' # hist)
              => ((b2.state = "open" /\ b2.last_change = Some(now))
                  <=> Cardinality(recent) > b2.maxfail)]_vars

C15_Witness ==
    \E i \in DOMAIN breakers :
        /\ last.op = "error"
        /\ last.inst = i
        /\ breakers[i].state = "open"
        /\ breakers[i].last_change = Some(now)
        /\ breakers[i].test_fail_count = 0
        /\ Len(hist) = MaxRun
        /\ hist[1] + breakers[i].time_unit <= now

\* C16: a call of test(), or the entry of a with-block, that raises
\* CircuitOpenError changes nothing: the breaker was open and is left open
\* with the same errors list, test_fail_count and last_change, and no block
\* is entered.
C16_RejectionKeepsState ==
    [][\A i \in DOMAIN breakers :
          (PermitOn(i) /\ last'.exc = "CircuitOpenError")
          => /\ breakers[i].state = "open"
             /\ breakers'[i] = breakers[i]
             /\ blocks' = blocks
             /\ probes' = probes]_vars

C16_Witness ==
    \E i \in DOMAIN breakers :
        /\ last = Call("test", i, "None", "None", "CircuitOpenError")
        /\ breakers[i].state = "open"
        /\ breakers[i].test_fail_count > 0
        /\ breakers[i].last_change # Some(now)

\* C17: with jitter, and base = reset_timeout when no back-off cap is
\* configured and min(backoff_cap, reset_timeout * 2^test_fail_count) when
\* one is, a permit check on an open breaker is let through whenever
\* now - last_change >= base and is rejected only when
\* now - last_change < base, whatever random.random() returns.
C17_JitterShortens ==
    [][\A i \in DOMAIN breakers :
          LET b     == breakers[i]
              base  == IF b.backoff_cap = None
                       THEN b.reset_timeout
                       ELSE Min(b.backoff_cap[1],
                                b.reset_timeout * Pow2(b.test_fail_count))
              delta == now - b.last_change[1]
          IN  (PermitOn(i) /\ b.state = "open" /\ b.with_jitter)
              => /\ delta >= base
                    => /\ last'.exc = "None"
                       /\ breakers'[i].state = "half-open"
                 /\ last'.exc = "CircuitOpenError" => delta < base]_vars

\* C18: no state is terminal: whenever the breaker is open, the clock
\* advancing and callers that follow the with-block protocol asking again
\* and again, a call is eventually let through and the breaker is
\* half-open; and in every reachable state calls exist that lead to an open,
\* then to a half-open, then to a closed breaker.
C18_NoTerminalState ==
    /\ [](\A i \in DOMAIN breakers : Revivable(breakers[i], now))
    /\ (breakers[1].state = "open") ~> (breakers[1].state = "half-open")

C18_Witness ==
    /\ last = Call("enter", 1, "None", "self", "None")
    /\ breakers[1].state = "half-open"
    /\ breakers[1].test_fail_count > 0
    /\ now > MaxTime

\* C19: a closed breaker has test_fail_count = 0.
C19_ClosedCountZero ==
    \A i \in DOMAIN breakers :
        breakers[i].state = "closed" => breakers[i].test_fail_count = 0

C19_Witness ==
    \E i \in DOMAIN breakers :
        /\ last.op \in {"success", "exit"}
        /\ last.inst = i
        /\ breakers[i].state = "closed"
        /\ breakers[i].last_change # None
        /\ breakers[i].errors # << >>

\* C20: an open breaker has last_change set, to a clock value not after
\* the current one, so that a permit check either returns or raises
\* CircuitOpenError, and nothing else.
C20_OpenHasStamp ==
    \A i \in DOMAIN breakers :
        /\ breakers[i].state = "open"
           => /\ breakers[i].last_change # None
              /\ breakers[i].last_change[1] <= now
        /\ \A rnd \in Draws(breakers[i]) :
              test(breakers[i], now, rnd).exc \in {"None", "CircuitOpenError"}
        /\ last.op \in {"test", "enter"}
           => last.exc \in {"None", "CircuitOpenError"}

C20_Witness ==
    \E i \in DOMAIN breakers :
        /\ last = Call("enter", i, "None", "None", "CircuitOpenError")
        /\ breakers[i].state = "open"
        /\ breakers[i].last_change # None
        /\ breakers[i].last_change[1] < now

\* C11: the create-if-absent of context() is atomic: whatever the
\* interleaving of concurrent calls for an id, the factory is invoked at
\* most once for it (no two threads have created a breaker for the same
\* id), and every caller is returned the breaker stored for the id.
C11_AtomicCreate ==
    /\ \A t, u \in DOMAIN calls :
          (t # u /\ calls[t].new # 0 /\ calls[u].new # 0)
              => calls[t].id # calls[u].id
    /\ \A t \in DOMAIN calls :
          (calls[t].pc = "idle" /\ calls[t].ret # 0)
              => cbsets[1].circuits[calls[t].id] = calls[t].ret

=============================================================================
